---- MODULE Spec2Model ----
(***************************************************************************)
(* Model of cores/packagemanager/package_manager.go: the PackageManager    *)
(* registry, its lifecycle (NewPackageManager, Clear, LoadPackageIndex,    *)
(* RegisterEventHandler, GetEventHandlers), the board locator              *)
(* (FindBoardsWithVidPid, FindBoardsWithID, FindBoardWithFQBN), the fluent *)
(* Package/Tool/Release chain and FindToolsRequiredForBoard.               *)
(*                                                                         *)
(* Go strings are sequences of one-character strings, so that              *)
(* strings.Split and fmt.Errorf are computed and not assumed.  A Go        *)
(* pointer that may be nil is a sequence of length 0 (nil) or 1.  A Go map *)
(* is a function; ranging over it visits the keys in any order.            *)
(***************************************************************************)
EXTENDS Integers, Sequences, FiniteSets, TLC

VARIABLES packages, eventHandler, panicked, pc, call, ret, handle

vars == <<packages, eventHandler, panicked, pc, call, ret, handle>>

----------------------------------------------------------------------------
(* Bounds of the model *)

\* longest list of tool dependencies a platform release declares
MaxDeps == 2
\* tool versions are "1" .. MaxVersion
MaxVersion == 2
\* most colon-separated segments of an FQBN given to FindBoardWithFQBN
MaxSegments == 5

----------------------------------------------------------------------------
(* Generic helpers *)

Nil == <<>>
Some(x) == <<x>>

Range(s) == {s[i] : i \in 1..Len(s)}
RangeOf(f) == {f[k] : k \in DOMAIN f}

\* every sequence over S of length at most n
SeqsUpTo(S, n) == UNION {[1..k -> S] : k \in 0..n}

\* every enumeration, without repetition, of the finite set S
RECURSIVE Perms(_)
Perms(S) ==
    IF S = {} THEN {<<>>}
    ELSE UNION {{<<x>> \o t : t \in Perms(S \ {x})} : x \in S}

\* map m with key k set to v
Put(m, k, v) == [x \in (DOMAIN m) \cup {k} |-> IF x = k THEN v ELSE m[x]]

----------------------------------------------------------------------------
(* Strings *)

Colon == ":"
A == <<"a">>
AB == <<"a", "b">>
Empty == <<>>

Digits == <<"1", "2", "3", "4">>
V1 == <<Digits[1]>>
Versions == {<<Digits[i]>> : i \in 1..MaxVersion}

\* strings.EqualFold on the characters used for USB ids
ToLower(c) == IF c = "A" THEN "a" ELSE c
EqualFold(s, t) ==
    /\ Len(s) = Len(t)
    /\ \A i \in 1..Len(s) : ToLower(s[i]) = ToLower(t[i])

\* strings.Split(s, sep) for a one-character separator: the pieces between
\* the separators, empty pieces included, always one more than separators
RECURSIVE SplitFrom(_, _, _, _)
SplitFrom(s, sep, i, cur) ==
    IF i > Len(s) THEN <<cur>>
    ELSE IF s[i] = sep THEN <<cur>> \o SplitFrom(s, sep, i + 1, <<>>)
    ELSE SplitFrom(s, sep, i + 1, Append(cur, s[i]))

Split(s, sep) == SplitFrom(s, sep, 1, <<>>)

\* strings.Join(parts, sep)
RECURSIVE Join(_, _)
Join(parts, sep) ==
    IF Len(parts) = 0 THEN <<>>
    ELSE IF Len(parts) = 1 THEN parts[1]
    ELSE parts[1] \o <<sep>> \o Join(Tail(parts), sep)

----------------------------------------------------------------------------
(* The cores package: entities of the registry and their methods *)

\* cores.NewPackages(): a collection with no package
NewPackages == <<>>

\* (*Tool).String(): the "packager:tool" identity of a tool
ToolString(tool) == tool.Package \o <<Colon>> \o tool.Name

\* (*ToolDependency).String(), used in FindToolsRequiredForBoard's error
DepString(dep) ==
    dep.ToolPackager \o <<Colon>> \o dep.ToolName \o <<"@">> \o dep.ToolVersion

\* (*ToolRelease).IsInstalled()
IsInstalled(release) == release.Installed

\* (*Tool).GetRelease(version): the release of that version, installed or not
GetRelease(tool, version) ==
    IF version \in DOMAIN tool.Releases THEN Some(tool.Releases[version]) ELSE Nil

\* the total order on versions
VersionNumber(v) == CHOOSE i \in 1..Len(Digits) : Digits[i] = v[1]
VersionLess(v, w) == VersionNumber(v) < VersionNumber(w)

\* (*Tool).GetLatestInstalled(): the installed release of highest version
GetLatestInstalled(tool) ==
    LET inst == {v \in DOMAIN tool.Releases : IsInstalled(tool.Releases[v])}
    IN  IF inst = {} THEN Nil
        ELSE Some(tool.Releases[CHOOSE v \in inst : \A w \in inst \ {v} : VersionLess(w, v)])

\* (*Platform).GetInstalled(): the installed release of a platform, if any
GetInstalled(platform) ==
    LET inst == {v \in DOMAIN platform.Releases : platform.Releases[v].Installed}
    IN  IF inst = {} THEN Nil
        ELSE Some(platform.Releases[CHOOSE v \in inst : TRUE])

\* (*Board).HasUsbID(vid, pid): some declared pair matches both, ignoring case
HasUsbID(board, vid, pid) ==
    \E u \in board.UsbIds : EqualFold(u[1], vid) /\ EqualFold(u[2], pid)

----------------------------------------------------------------------------
(* Ranging over a Go map *)

\* for _, x := range m { res = append(res, Body(x)...) }: the keys are
\* visited in any order; Body(x) is the set of lists x may contribute
RECURSIVE ConcatOrders(_, _)
ConcatOrders(S, F) ==
    IF S = {} THEN {<<>>}
    ELSE UNION {{h \o t : h \in F[x], t \in ConcatOrders(S \ {x}, F)} : x \in S}

RangeMap(m, Body(_)) == ConcatOrders(DOMAIN m, [k \in DOMAIN m |-> Body(m[k])])

\* the outcome of a loop body or of a call: it returned (val, err), or it
\* fell through to the next iteration
Continue == [returned |-> FALSE, val |-> Nil, err |-> Nil]
Return(val, err) == [returned |-> TRUE, val |-> val, err |-> err]

\* errors.New(text)
ErrorsNew(text) == Some(<<text>>)

\* for _, x := range m { ... return ... }: the keys are visited in any order
\* until a body returns; F[k] is the set of outcomes of the body on key k
RECURSIVE ScanAny(_, _)
ScanAny(S, F) ==
    IF S = {} THEN {Continue}
    ELSE UNION {{o \in F[x] : o.returned}
                  \cup (IF Continue \in F[x] THEN ScanAny(S \ {x}, F) ELSE {}) : x \in S}

RangeUntil(m, Body(_)) == ScanAny(DOMAIN m, [k \in DOMAIN m |-> Body(m[k])])

----------------------------------------------------------------------------
(* package_manager.go: the board locator *)

\* every list FindBoardsWithVidPid(vid, pid) can return
FindBoardsWithVidPid(pkgs, vid, pid) ==
    RangeMap(pkgs, LAMBDA targetPackage :
      RangeMap(targetPackage.Platforms, LAMBDA targetPlatform :
        LET platform == GetInstalled(targetPlatform)
        IN  IF platform # Nil
            THEN RangeMap(platform[1].Boards, LAMBDA board :
                   IF HasUsbID(board, vid, pid) THEN {<<board>>} ELSE {<<>>})
            ELSE {<<>>}))

\* a slip: the boards of every release, installed or not
FindBoardsWithIDAnyRelease(pkgs, id) ==
    RangeMap(pkgs, LAMBDA targetPackage :
      RangeMap(targetPackage.Platforms, LAMBDA targetPlatform :
        RangeMap(targetPlatform.Releases, LAMBDA platform :
          RangeMap(platform.Boards, LAMBDA board :
            IF board.BoardId = id THEN {<<board>>} ELSE {<<>>}))))

\* every list FindBoardsWithID(id) can return
FindBoardsWithID(pkgs, id) ==
    RangeMap(pkgs, LAMBDA targetPackage :
      RangeMap(targetPackage.Platforms, LAMBDA targetPlatform :
        LET platform == GetInstalled(targetPlatform)
        IN  IF platform # Nil
            THEN RangeMap(platform[1].Boards, LAMBDA board :
                   IF board.BoardId = id THEN {<<board>>} ELSE {<<>>})
            ELSE {<<>>}))

\* a slip: a platform that is not installed is skipped like a foreign one
SearchPlatformSkipping(targetPlatform, platformArch, boardID) ==
    LET platform == GetInstalled(targetPlatform)
    IN  IF targetPlatform.Architecture # platformArch \/ platform = Nil
        THEN {Continue}
        ELSE RangeUntil(platform[1].Boards, LAMBDA board :
               IF board.BoardId = boardID THEN {Return(Some(board), Nil)}
               ELSE {Continue})

\* the body of FindBoardWithFQBN's loop over the platforms of a package
SearchPlatform(targetPlatform, platformArch, boardID) ==
    IF targetPlatform.Architecture # platformArch THEN {Continue}
    ELSE LET platform == GetInstalled(targetPlatform)
         IN  IF platform = Nil
             THEN {Return(Nil, ErrorsNew("platform not installed"))}
             ELSE RangeUntil(platform[1].Boards, LAMBDA board :
                    IF board.BoardId = boardID THEN {Return(Some(board), Nil)}
                    ELSE {Continue})

\* every (board, error) FindBoardWithFQBN(fqbn) can return
FindBoardWithFQBN(pkgs, fqbn) ==
    LET fqbnParts == Split(fqbn, Colon)
    IN  IF Len(fqbnParts) < 3 \/ Len(fqbnParts) > 4
        THEN {Return(Nil, ErrorsNew("incorrect format for fqbn"))}
        ELSE LET packageName == fqbnParts[1]
                 platformArch == fqbnParts[2]
                 boardID == fqbnParts[3]
                 search == RangeUntil(pkgs, LAMBDA targetPackage :
                     IF targetPackage.Name # packageName THEN {Continue}
                     ELSE RangeUntil(targetPackage.Platforms, LAMBDA targetPlatform :
                            SearchPlatform(targetPlatform, platformArch, boardID)))
             IN  {IF o.returned THEN o ELSE Return(Nil, ErrorsNew("board not found"))
                    : o \in search}

----------------------------------------------------------------------------
(* package_manager.go: the Package -> Tool -> Release chain *)

\* fmt.Errorf("package '%s' not found", name)
PackageNotFound(name) == Some(<<"package '">> \o name \o <<"' not found">>)

\* fmt.Errorf("tool '%s' not found in package '%s'", name, packageName)
ToolNotFound(name, packageName) ==
    Some(<<"tool '">> \o name \o <<"' not found in package '">> \o packageName \o <<"'">>)

\* fmt.Errorf("release %s not found for tool %s", version, tool.String())
ReleaseNotFound(version, tool) ==
    Some(<<"release ">> \o version \o <<" not found for tool ">> \o ToolString(tool))

\* pm.Package(name)
Package(pkgs, name) ==
    LET thePackage == IF name \in DOMAIN pkgs THEN Some(pkgs[name]) ELSE Nil
    IN  [aPackage |-> thePackage,
         forwardError |-> IF thePackage = Nil THEN PackageNotFound(name) ELSE Nil]

\* a slip: the tool stage reports its own failure over the latched one
ToolForgetting(pa, name) ==
    IF pa.aPackage # Nil /\ name \in DOMAIN pa.aPackage[1].Tools
    THEN [tool |-> Some(pa.aPackage[1].Tools[name]), forwardError |-> pa.forwardError]
    ELSE [tool |-> Nil,
          forwardError |-> ToolNotFound(name, IF pa.aPackage = Nil THEN Empty
                                              ELSE pa.aPackage[1].Name)]

\* pa.Tool(name)
Tool(pa, name) ==
    IF pa.forwardError = Nil
    THEN LET tool == IF name \in DOMAIN pa.aPackage[1].Tools
                     THEN Some(pa.aPackage[1].Tools[name]) ELSE Nil
         IN  [tool |-> tool,
              forwardError |-> IF tool = Nil THEN ToolNotFound(name, pa.aPackage[1].Name)
                               ELSE Nil]
    ELSE [tool |-> Nil, forwardError |-> pa.forwardError]

\* ta.Get()
ToolGet(ta) ==
    IF ta.forwardError = Nil THEN Return(ta.tool, Nil) ELSE Return(Nil, ta.forwardError)

\* ta.IsInstalled(): (bool, error)
ToolIsInstalled(ta) ==
    IF ta.forwardError # Nil THEN Return(FALSE, ta.forwardError)
    ELSE Return(\E v \in DOMAIN ta.tool[1].Releases : IsInstalled(ta.tool[1].Releases[v]),
                Nil)

\* ta.Release(version)
Release(ta, version) ==
    IF ta.forwardError # Nil THEN [release |-> Nil, forwardError |-> ta.forwardError]
    ELSE LET release == GetRelease(ta.tool[1], version)
         IN  IF release = Nil
             THEN [release |-> Nil, forwardError |-> ReleaseNotFound(version, ta.tool[1])]
             ELSE [release |-> release, forwardError |-> Nil]

\* tr.Get()
ToolReleaseGet(tr) ==
    IF tr.forwardError # Nil THEN Return(Nil, tr.forwardError)
    ELSE Return(tr.release, Nil)

----------------------------------------------------------------------------
(* package_manager.go: the tools a board requires *)

\* every list GetAllInstalledToolsReleases() can return
GetAllInstalledToolsReleases(pkgs) ==
    RangeMap(pkgs, LAMBDA targetPackage :
      RangeMap(targetPackage.Tools, LAMBDA tool :
        RangeMap(tool.Releases, LAMBDA release :
          IF IsInstalled(release) THEN {<<release>>} ELSE {<<>>})))

\* pm.FindToolDependency(dep): the release, or nil
FindToolDependency(pkgs, dep) ==
    LET got == ToolReleaseGet(Release(Tool(Package(pkgs, dep.ToolPackager), dep.ToolName),
                                      dep.ToolVersion))
    IN  IF got.err # Nil THEN Nil ELSE got.val

\* foundTools after the assignments foundTools[key] = rel of list puts, in order
RECURSIVE ApplyPuts(_, _)
ApplyPuts(found, puts) ==
    IF puts = <<>> THEN found
    ELSE ApplyPuts(Put(found, puts[1][1], puts[1][2]), Tail(puts))

\* the first loop: every map foundTools can be after it
DefaultTools(pkgs) ==
    LET puts == RangeMap(pkgs, LAMBDA targetPackage :
                  RangeMap(targetPackage.Tools, LAMBDA tool :
                    LET rel == GetLatestInstalled(tool)
                    IN  IF rel # Nil THEN {<< <<ToolString(rel[1].Tool), rel[1]>> >>}
                        ELSE {<<>>}))
    IN  {ApplyPuts(<<>>, p) : p \in puts}

\* the second loop from dependency i on: foundTools at its end, or the error
\* of the first dependency that FindToolDependency does not find
RECURSIVE OverlayFrom(_, _, _, _)
OverlayFrom(pkgs, found, deps, i) ==
    IF i > Len(deps) THEN [found |-> found, err |-> Nil]
    ELSE LET tool == FindToolDependency(pkgs, deps[i])
         IN  IF tool = Nil
             THEN [found |-> <<>>,
                   err |-> Some(<<"tool release not found: ">> \o DepString(deps[i]))]
             ELSE OverlayFrom(pkgs, Put(found, ToolString(tool[1].Tool), tool[1]), deps, i + 1)

\* a slip: a default already in foundTools is kept over the declared release
RECURSIVE OverlayKeepingFrom(_, _, _, _)
OverlayKeepingFrom(pkgs, found, deps, i) ==
    IF i > Len(deps) THEN [found |-> found, err |-> Nil]
    ELSE LET tool == FindToolDependency(pkgs, deps[i])
         IN  IF tool = Nil
             THEN [found |-> <<>>,
                   err |-> Some(<<"tool release not found: ">> \o DepString(deps[i]))]
             ELSE OverlayKeepingFrom(pkgs,
                    IF ToolString(tool[1].Tool) \in DOMAIN found THEN found
                    ELSE Put(found, ToolString(tool[1].Tool), tool[1]),
                    deps, i + 1)

OverlayKeeping(pkgs, found, deps) == OverlayKeepingFrom(pkgs, found, deps, 1)

\* a slip: foundTools is keyed by release ("packager:tool@version")
RECURSIVE OverlayPerReleaseFrom(_, _, _, _)
OverlayPerReleaseFrom(pkgs, found, deps, i) ==
    IF i > Len(deps) THEN [found |-> found, err |-> Nil]
    ELSE LET tool == FindToolDependency(pkgs, deps[i])
         IN  IF tool = Nil
             THEN [found |-> <<>>,
                   err |-> Some(<<"tool release not found: ">> \o DepString(deps[i]))]
             ELSE OverlayPerReleaseFrom(pkgs,
                    Put(found, ToolString(tool[1].Tool) \o <<"@">> \o tool[1].Version, tool[1]),
                    deps, i + 1)

OverlayPerRelease(pkgs, found, deps) == OverlayPerReleaseFrom(pkgs, found, deps, 1)

\* the second loop: the declared dependencies replace the defaults
Overlay(pkgs, found, deps) == OverlayFrom(pkgs, found, deps, 1)

\* the third loop: the values of foundTools, in any order
RequiredTools(found) ==
    {[i \in 1..Len(ord) |-> found[ord[i]]] : ord \in Perms(DOMAIN found)}

\* every (tools, error) FindToolsRequiredForBoard(board) can return
FindToolsRequiredForBoard(pkgs, board) ==
    LET platform == board.PlatformRelease
    IN  UNION {LET over == Overlay(pkgs, found, platform.Dependencies)
               IN  IF over.err # Nil THEN {Return(Nil, over.err)}
                   ELSE {Return(Some(requiredTools), Nil)
                           : requiredTools \in RequiredTools(over.found)}
                 : found \in DefaultTools(pkgs)}

----------------------------------------------------------------------------
(* The registries and the arguments the operations are applied to *)

PkgNames == {A, AB}
ArchNames == {A}
BoardIds == {A, AB}
V2 == <<Digits[2]>>
Handlers == {"h1", "h2"}

\* the tools a package of that name may hold, and the versions of each
ToolNamesOf(pkg) == IF pkg = A THEN {A, AB} ELSE {A}
ToolVersionsOf(pkg, name) == IF pkg = A /\ name = A THEN Versions ELSE {V1}

ToolRelease(pkg, name, version, installed) ==
    [Tool |-> [Package |-> pkg, Name |-> name], Version |-> version,
     Installed |-> installed]

\* every tool of that name: any of its versions released, any of them installed
ToolShapes(pkg, name) ==
    UNION {{[Package |-> pkg, Name |-> name,
             Releases |-> [v \in D |-> ToolRelease(pkg, name, v, inst[v])]]
              : inst \in [D -> BOOLEAN]}
             : D \in SUBSET ToolVersionsOf(pkg, name)}

ToolMaps(pkg) ==
    UNION {{m \in [D -> UNION {ToolShapes(pkg, t) : t \in D}] : \A t \in D : m[t].Name = t}
             : D \in SUBSET ToolNamesOf(pkg)}

\* the USB (vid, pid) pairs a board declares
UsbIdsOf(pkg, id) ==
    IF id = AB THEN {<< <<"1">>, <<"1">> >>, << <<"a">>, <<"a">> >>}
    ELSE IF pkg = A THEN {<< <<"a">>, <<"1">> >>}
    ELSE {<< <<"A">>, <<"1">> >>}

\* the versions a platform of a package of that name may have released
PlatformVersionsOf(pkg) == IF pkg = A THEN {V1, V2} ELSE {V1}

Board(pkg, arch, version, deps, id) ==
    [PlatformRelease |-> [Package |-> pkg, Architecture |-> arch, Version |-> version,
                          Dependencies |-> deps],
     BoardId |-> id, UsbIds |-> UsbIdsOf(pkg, id)]

PlatformReleaseShapes(pkg, arch, version) ==
    {[Version |-> version, Installed |-> inst, Dependencies |-> <<>>,
      Boards |-> [id \in ids |-> Board(pkg, arch, version, <<>>, id)]]
       : inst \in BOOLEAN, ids \in SUBSET BoardIds}

\* every platform of that architecture: at most one release is installed
PlatformShapes(pkg, arch) ==
    UNION {{[Architecture |-> arch, Releases |-> rs]
              : rs \in {r \in [D -> UNION {PlatformReleaseShapes(pkg, arch, v) : v \in D}]
                          : /\ \A v \in D : r[v].Version = v
                            /\ Cardinality({v \in D : r[v].Installed}) <= 1}}
             : D \in SUBSET PlatformVersionsOf(pkg)}

PlatformMaps(pkg) ==
    UNION {{m \in [D -> UNION {PlatformShapes(pkg, a) : a \in D}]
              : \A a \in D : m[a].Architecture = a}
             : D \in SUBSET ArchNames}

\* registries of packages that hold tools only
ToolPackages ==
    UNION {{[Name |-> p, Platforms |-> <<>>, Tools |-> tm] : tm \in ToolMaps(p)}
             : p \in PkgNames}

ToolRegistries ==
    UNION {{r \in [D -> ToolPackages] : \A p \in D : r[p].Name = p} : D \in SUBSET PkgNames}

\* registries of packages that hold platforms only
BoardPackages ==
    UNION {{[Name |-> p, Platforms |-> pm, Tools |-> <<>>] : pm \in PlatformMaps(p)}
             : p \in PkgNames}

BoardRegistries ==
    UNION {{r \in [D -> BoardPackages] : \A p \in D : r[p].Name = p} : D \in SUBSET PkgNames}

\* the dependencies a platform release may declare
ToolDependencies ==
    {[ToolPackager |-> p, ToolName |-> t, ToolVersion |-> v]
       : p \in PkgNames, t \in {A, AB}, v \in Versions}

\* the boards FindToolsRequiredForBoard is given
BoardsWithDependencies ==
    {Board(A, A, V1, deps, A) : deps \in SeqsUpTo(ToolDependencies, MaxDeps)}

\* the strings FindBoardWithFQBN is given
Segments == {Empty, A, AB}
Fqbns == {Join(segs, Colon) : segs \in SeqsUpTo(Segments, MaxSegments) \ {<<>>}}

\* the USB ids FindBoardsWithVidPid is given
HexStrings == {<<"a">>, <<"A">>, <<"1">>}

----------------------------------------------------------------------------
(* The index merge, a collaborator of LoadPackageIndex *)

\* the entries of new merged into old: an entry of both is merged by Both
MergeMaps(old, new, Both(_, _)) ==
    [k \in (DOMAIN old) \cup (DOMAIN new) |->
        IF k \in DOMAIN old /\ k \in DOMAIN new THEN Both(old[k], new[k])
        ELSE IF k \in DOMAIN new THEN new[k] ELSE old[k]]

\* index.MergeIntoPackages(packages): packages, platforms, tools and their
\* releases are created when missing and updated in place otherwise
MergeIntoPackages(index, pkgs) ==
    MergeMaps(pkgs, index, LAMBDA oldPkg, newPkg :
      [Name |-> oldPkg.Name,
       Platforms |-> MergeMaps(oldPkg.Platforms, newPkg.Platforms, LAMBDA op, np :
           [Architecture |-> op.Architecture,
            Releases |-> MergeMaps(op.Releases, np.Releases, LAMBDA o, n : n)]),
       Tools |-> MergeMaps(oldPkg.Tools, newPkg.Tools, LAMBDA ot, nt :
           [Package |-> ot.Package, Name |-> ot.Name,
            Releases |-> MergeMaps(ot.Releases, nt.Releases, LAMBDA o, n : n)])])

\* an index that holds one release of one tool
ToolIndex(pkg, name, version, installed) ==
    [p \in {pkg} |->
       [Name |-> pkg, Platforms |-> <<>>,
        Tools |-> [t \in {name} |->
           [Package |-> pkg, Name |-> name,
            Releases |-> [v \in {version} |-> ToolRelease(pkg, name, v, installed)]]]]]

\* an index that holds one release of one platform, with all its boards
PlatformIndex(pkg, arch, version, installed) ==
    [p \in {pkg} |->
       [Name |-> pkg, Tools |-> <<>>,
        Platforms |-> [a \in {arch} |->
           [Architecture |-> arch,
            Releases |-> [v \in {version} |->
               [Version |-> v, Installed |-> installed, Dependencies |-> <<>>,
                Boards |-> [id \in BoardIds |-> Board(pkg, arch, v, <<>>, id)]]]]]]]

\* the indexes LoadPackageIndex may find cached
Indexes ==
    {ToolIndex(A, A, V1, TRUE), ToolIndex(A, A, V1, FALSE), ToolIndex(AB, A, V1, TRUE),
     PlatformIndex(A, A, V1, TRUE)}

Urls == {"url1", "url2"}

----------------------------------------------------------------------------
(* package_manager.go: the lifecycle of a PackageManager *)

NoCall == [op |-> "none", args |-> <<>>]
NoHandle == [forwardError |-> Nil]
Idle == pc = "idle" /\ ~panicked

\* NewPackageManager(): the fields of the manager it returns
NewPackageManager == [packages |-> NewPackages, eventHandler |-> Nil]

Init ==
    /\ packages = NewPackageManager.packages
    /\ eventHandler = NewPackageManager.eventHandler
    /\ panicked = FALSE
    /\ pc = "idle"
    /\ call = NoCall
    /\ ret = Continue
    /\ handle = NoHandle

\* pm.Clear()
Clear ==
    /\ Idle
    /\ packages' = NewPackages
    /\ call' = [op |-> "Clear", args |-> <<>>]
    /\ ret' = Return(Nil, Nil)
    /\ UNCHANGED <<eventHandler, panicked, pc, handle>>

\* pm.GetPackages()
GetPackages ==
    /\ Idle
    /\ call' = [op |-> "GetPackages", args |-> <<>>]
    /\ ret' = Return(Some(packages), Nil)
    /\ UNCHANGED <<packages, eventHandler, panicked, pc, handle>>

\* pm.RegisterEventHandler(h): panics when a handler is registered already
RegisterEventHandler(h) ==
    /\ Idle
    /\ call' = [op |-> "RegisterEventHandler", args |-> <<h>>]
    /\ IF eventHandler # Nil
       THEN /\ panicked' = TRUE
            /\ ret' = Continue
            /\ UNCHANGED eventHandler
       ELSE /\ eventHandler' = Some(h)
            /\ ret' = Return(Nil, Nil)
            /\ UNCHANGED panicked
    /\ UNCHANGED <<packages, pc, handle>>

\* pm.GetEventHandlers(): one pointer, to the eventHandler field
GetEventHandlers ==
    /\ Idle
    /\ call' = [op |-> "GetEventHandlers", args |-> <<>>]
    /\ ret' = Return(Some(<<eventHandler>>), Nil)
    /\ UNCHANGED <<packages, eventHandler, panicked, pc, handle>>

\* pm.LoadPackageIndex(URL): the cached index of URL is merged, unless its
\* path or the file cannot be had
LoadPackageIndex(url) ==
    /\ Idle
    /\ call' = [op |-> "LoadPackageIndex", args |-> <<url>>]
    /\ \/ /\ ret' = Return(Nil, Some(<<"retrieving json index path for ", url, ": ", "err">>))
          /\ UNCHANGED packages
       \/ /\ ret' = Return(Nil, Some(<<"loading json index file ", url, ": ", "err">>))
          /\ UNCHANGED packages
       \/ \E index \in Indexes :
            /\ packages' = MergeIntoPackages(index, packages)
            /\ ret' = Return(Nil, Nil)
    /\ UNCHANGED <<eventHandler, panicked, pc, handle>>

Next ==
    \/ Clear
    \/ GetPackages
    \/ \E h \in Handlers : RegisterEventHandler(h)
    \/ GetEventHandlers
    \/ \E url \in Urls : LoadPackageIndex(url)

Spec == Init /\ [][Next]_vars

----------------------------------------------------------------------------
(* The board locator applied to every registry and argument *)

BoardCalls ==
    {[op |-> "FindBoardWithFQBN", args |-> <<f>>] : f \in Fqbns}
      \cup {[op |-> "FindBoardsWithID", args |-> <<id>>] : id \in BoardIds \cup {Empty}}
      \cup {[op |-> "FindBoardsWithVidPid", args |-> <<vid, pid>>]
              : vid \in HexStrings, pid \in HexStrings}

InitBoards ==
    /\ packages \in BoardRegistries
    /\ eventHandler = Nil
    /\ panicked = FALSE
    /\ pc = "call"
    /\ call \in BoardCalls
    /\ ret = Continue
    /\ handle = NoHandle

CallFindBoardWithFQBN ==
    /\ pc = "call" /\ call.op = "FindBoardWithFQBN"
    /\ \E r \in FindBoardWithFQBN(packages, call.args[1]) : ret' = r
    /\ pc' = "done"
    /\ UNCHANGED <<packages, eventHandler, panicked, call, handle>>

CallFindBoardsWithID ==
    /\ pc = "call" /\ call.op = "FindBoardsWithID"
    /\ \E res \in FindBoardsWithID(packages, call.args[1]) : ret' = Return(Some(res), Nil)
    /\ pc' = "done"
    /\ UNCHANGED <<packages, eventHandler, panicked, call, handle>>

CallFindBoardsWithVidPid ==
    /\ pc = "call" /\ call.op = "FindBoardsWithVidPid"
    /\ \E res \in FindBoardsWithVidPid(packages, call.args[1], call.args[2]) :
          ret' = Return(Some(res), Nil)
    /\ pc' = "done"
    /\ UNCHANGED <<packages, eventHandler, panicked, call, handle>>

NextBoards ==
    \/ CallFindBoardWithFQBN
    \/ CallFindBoardsWithID
    \/ CallFindBoardsWithVidPid

SpecBoards == InitBoards /\ [][NextBoards]_vars

----------------------------------------------------------------------------
(* The chain and the tool resolver applied to every registry and argument *)

ToolCalls ==
    {[op |-> "FindToolsRequiredForBoard", args |-> <<b>>] : b \in BoardsWithDependencies}
      \cup {[op |-> o, args |-> <<p, t, v>>]
              : o \in {"Release.Get", "Tool.Get", "Tool.IsInstalled"},
                p \in PkgNames, t \in {A, AB}, v \in Versions}

InitTools ==
    /\ packages \in ToolRegistries
    /\ eventHandler = Nil
    /\ panicked = FALSE
    /\ pc = "call"
    /\ call \in ToolCalls
    /\ ret = Continue
    /\ handle = NoHandle

CallFindToolsRequiredForBoard ==
    /\ pc = "call" /\ call.op = "FindToolsRequiredForBoard"
    /\ \E r \in FindToolsRequiredForBoard(packages, call.args[1]) : ret' = r
    /\ pc' = "done"
    /\ UNCHANGED <<packages, eventHandler, panicked, call, handle>>

\* pm.Package(P)
ChainPackage ==
    /\ pc = "call" /\ call.op # "FindToolsRequiredForBoard"
    /\ handle' = Package(packages, call.args[1])
    /\ pc' = "package"
    /\ UNCHANGED <<packages, eventHandler, panicked, call, ret>>

\* .Tool(T)
ChainTool ==
    /\ pc = "package"
    /\ handle' = Tool(handle, call.args[2])
    /\ pc' = "tool"
    /\ UNCHANGED <<packages, eventHandler, panicked, call, ret>>

\* .Release(V)
ChainRelease ==
    /\ pc = "tool" /\ call.op = "Release.Get"
    /\ handle' = Release(handle, call.args[3])
    /\ pc' = "release"
    /\ UNCHANGED <<packages, eventHandler, panicked, call, ret>>

\* .Get() of the release stage
ChainReleaseGet ==
    /\ pc = "release"
    /\ ret' = ToolReleaseGet(handle)
    /\ pc' = "done"
    /\ UNCHANGED <<packages, eventHandler, panicked, call, handle>>

\* .Get() of the tool stage
ChainToolGet ==
    /\ pc = "tool" /\ call.op = "Tool.Get"
    /\ ret' = ToolGet(handle)
    /\ pc' = "done"
    /\ UNCHANGED <<packages, eventHandler, panicked, call, handle>>

\* .IsInstalled() of the tool stage
ChainToolIsInstalled ==
    /\ pc = "tool" /\ call.op = "Tool.IsInstalled"
    /\ ret' = ToolIsInstalled(handle)
    /\ pc' = "done"
    /\ UNCHANGED <<packages, eventHandler, panicked, call, handle>>

NextTools ==
    \/ CallFindToolsRequiredForBoard
    \/ ChainPackage
    \/ ChainTool
    \/ ChainRelease
    \/ ChainReleaseGet
    \/ ChainToolGet
    \/ ChainToolIsInstalled

SpecTools == InitTools /\ [][NextTools]_vars

----------------------------------------------------------------------------
(* Properties of FindToolsRequiredForBoard *)

DoneFindTools == pc = "done" /\ call.op = "FindToolsRequiredForBoard"
Deps == call.args[1].PlatformRelease.Dependencies

\* the release a dependency names, when the registry holds it
Resolves(d) ==
    /\ d.ToolPackager \in DOMAIN packages
    /\ d.ToolName \in DOMAIN packages[d.ToolPackager].Tools
    /\ d.ToolVersion \in DOMAIN packages[d.ToolPackager].Tools[d.ToolName].Releases
Named(d) == packages[d.ToolPackager].Tools[d.ToolName].Releases[d.ToolVersion]

\* dependency i is the last one declared on its packager:tool
IsLast(i) ==
    \A j \in (i + 1)..Len(Deps) :
        ~(Deps[j].ToolPackager = Deps[i].ToolPackager /\ Deps[j].ToolName = Deps[i].ToolName)

\* the latest installed release of every tool no dependency names
Defaults ==
    {packages[p].Tools[t].Releases[v] :
       <<p, t, v>> \in {x \in PkgNames \X {A, AB} \X Versions :
          /\ x[1] \in DOMAIN packages
          /\ x[2] \in DOMAIN packages[x[1]].Tools
          /\ x[3] \in DOMAIN packages[x[1]].Tools[x[2]].Releases
          /\ packages[x[1]].Tools[x[2]].Releases[x[3]].Installed
          /\ \A w \in DOMAIN packages[x[1]].Tools[x[2]].Releases :
               packages[x[1]].Tools[x[2]].Releases[w].Installed
                 => VersionNumber(w) <= VersionNumber(x[3])
          /\ \A i \in 1..Len(Deps) :
               ~(Deps[i].ToolPackager = x[1] /\ Deps[i].ToolName = x[2])}}

\* C1, as claimed: when every declared dependency names a release of the
\* registry, the call returns exactly every declared release plus the latest
\* installed release of every tool that no dependency names.
C1_EveryDeclaredRelease ==
    (DoneFindTools /\ \A i \in 1..Len(Deps) : Resolves(Deps[i]))
      => /\ ret.err = Nil
         /\ ret.val # Nil
         /\ Range(ret.val[1]) = {Named(Deps[i]) : i \in 1..Len(Deps)} \cup Defaults

\* C1, amended: when every declared dependency names a release of the
\* registry, the call returns exactly, for every packager:tool the
\* dependencies name, the release of the last dependency declared on it, plus
\* the latest installed release of every tool that no dependency names.
C1_LastDeclaredRelease ==
    (DoneFindTools /\ \A i \in 1..Len(Deps) : Resolves(Deps[i]))
      => /\ ret.err = Nil
         /\ ret.val # Nil
         /\ Range(ret.val[1]) =
              {Named(Deps[i]) : i \in {j \in 1..Len(Deps) : IsLast(j)}} \cup Defaults

\* tool a:a pinned to its first version although the second is installed,
\* tool a:ab left to its default: both are in the result
C1_Witness ==
    /\ DoneFindTools
    /\ Deps = <<[ToolPackager |-> A, ToolName |-> A, ToolVersion |-> V1]>>
    /\ A \in DOMAIN packages
    /\ DOMAIN packages[A].Tools = {A, AB}
    /\ DOMAIN packages[A].Tools[A].Releases = {V1, V2}
    /\ packages[A].Tools[A].Releases[V1].Installed
    /\ packages[A].Tools[A].Releases[V2].Installed
    /\ packages[A].Tools[AB].Releases = [v \in {V1} |-> ToolRelease(A, AB, V1, TRUE)]
    /\ ret.val # Nil
    /\ Range(ret.val[1]) = {ToolRelease(A, A, V1, TRUE), ToolRelease(A, AB, V1, TRUE)}

\* C2: the call fails, returning an error and no releases, whenever a declared
\* dependency names no installed release, also when the release is in the
\* registry and is not installed.
C2_FailsUnlessInstalled ==
    (DoneFindTools /\ \E i \in 1..Len(Deps) :
                         ~(Resolves(Deps[i]) /\ Named(Deps[i]).Installed))
      => ret.err # Nil /\ ret.val = Nil

\* C10: a successful result holds at most one release per packager:tool; of
\* several dependencies on one packager:tool the last declared is the one in
\* the result; every order of iteration gives the same set of releases.
C10_OnePerIdentity ==
    (DoneFindTools /\ ret.err = Nil)
      => /\ ret.val # Nil
         /\ \A i, j \in 1..Len(ret.val[1]) :
              ret.val[1][i].Tool = ret.val[1][j].Tool => i = j
         /\ \A i \in 1..Len(Deps) :
              IsLast(i) => \E k \in 1..Len(ret.val[1]) :
                              /\ ret.val[1][k].Tool.Package = Deps[i].ToolPackager
                              /\ ret.val[1][k].Tool.Name = Deps[i].ToolName
                              /\ ret.val[1][k].Version = Deps[i].ToolVersion
         /\ \A r \in FindToolsRequiredForBoard(packages, call.args[1]) :
              r.err = Nil /\ Range(r.val[1]) = Range(ret.val[1])

\* two dependencies on a:a, the first version then the second: the call
\* succeeds with the second, next to a default of another tool
C10_Witness ==
    /\ DoneFindTools
    /\ Deps = <<[ToolPackager |-> A, ToolName |-> A, ToolVersion |-> V1],
                [ToolPackager |-> A, ToolName |-> A, ToolVersion |-> V2]>>
    /\ ret.err = Nil
    /\ Len(ret.val[1]) = 2
    /\ \E k \in 1..2 : ret.val[1][k].Tool = [Package |-> A, Name |-> A]
                          /\ ret.val[1][k].Version = V2

----------------------------------------------------------------------------
(* Properties of the Package -> Tool -> Release chain *)

ChainP == call.args[1]
ChainT == call.args[2]
ChainV == call.args[3]

HasPackage == ChainP \in DOMAIN packages
HasTool == HasPackage /\ ChainT \in DOMAIN packages[ChainP].Tools
HasRelease == HasTool /\ ChainV \in DOMAIN packages[ChainP].Tools[ChainT].Releases

\* the error of the first stage, up to stage n, whose key is missing
ChainError(n) ==
    IF ~HasPackage
    THEN Some(<<"package '">> \o ChainP \o <<"' not found">>)
    ELSE IF n >= 2 /\ ~HasTool
    THEN Some(<<"tool '">> \o ChainT \o <<"' not found in package '">> \o ChainP \o <<"'">>)
    ELSE IF n >= 3 /\ ~HasRelease
    THEN Some(<<"release ">> \o ChainV \o <<" not found for tool ">>
                \o ChainP \o <<":">> \o ChainT)
    ELSE Nil

\* C5: Package(P).Tool(T).Release(V).Get() returns release V of tool T of
\* package P and no error when the three exist; otherwise it returns no
\* entity and the error of the first stage whose key is missing, which names
\* the key and its scope; every stage after a failed one carries that same
\* error on.
C5_ChainResolution ==
    call.op = "Release.Get" =>
      /\ pc = "package" => handle.forwardError = ChainError(1)
      /\ pc = "tool" => handle.forwardError = ChainError(2)
      /\ pc = "release" => handle.forwardError = ChainError(3)
      /\ pc = "done" =>
           IF HasRelease
           THEN ret = Return(Some(packages[ChainP].Tools[ChainT].Releases[ChainV]), Nil)
           ELSE ret = Return(Nil, ChainError(3))

\* the package is missing while another package holds that tool and release:
\* Get() still reports the package, two stages later
C5_Witness ==
    /\ pc = "done" /\ call.op = "Release.Get"
    /\ ~HasPackage
    /\ \E p \in DOMAIN packages :
          /\ ChainT \in DOMAIN packages[p].Tools
          /\ ChainV \in DOMAIN packages[p].Tools[ChainT].Releases
    /\ ret.val = Nil
    /\ ret.err = Some(<<"package '">> \o ChainP \o <<"' not found">>)

----------------------------------------------------------------------------
(* Properties of the board locator *)

DoneFqbn == pc = "done" /\ call.op = "FindBoardWithFQBN"
FqbnParts == Split(call.args[1], Colon)
WellFormed == Len(FqbnParts) \in {3, 4}

IncorrectFormat == Some(<<"incorrect format for fqbn">>)
PlatformNotInstalled == Some(<<"platform not installed">>)
BoardNotFound == Some(<<"board not found">>)

\* the releases of the platform the FQBN names that are installed
InstalledOfFqbn ==
    LET rs == packages[FqbnParts[1]].Platforms[FqbnParts[2]].Releases
    IN  {rs[v] : v \in {w \in DOMAIN rs : rs[w].Installed}}

\* C6: besides success the call has four distinguishable failures; a
\* well-formed FQBN whose packager is no package of the registry fails with a
\* package-not-found error, which is none of the other three.
C6_PackageNotFound ==
    (/\ DoneFqbn /\ WellFormed
     /\ \A i \in 1..Len(FqbnParts) : FqbnParts[i] # Empty
     /\ FqbnParts[1] \notin DOMAIN packages)
      => /\ ret.val = Nil
         /\ ret.err \notin {Nil, IncorrectFormat, PlatformNotInstalled, BoardNotFound}

\* C7: for a well-formed FQBN whose package holds the platform: no installed
\* release gives "platform not installed"; an installed release without the
\* board gives "board not found"; otherwise that board is returned, no error.
C7_PlatformThenBoard ==
    (/\ DoneFqbn /\ WellFormed
     /\ FqbnParts[1] \in DOMAIN packages
     /\ FqbnParts[2] \in DOMAIN packages[FqbnParts[1]].Platforms)
      => IF InstalledOfFqbn = {}
         THEN ret = Return(Nil, PlatformNotInstalled)
         ELSE \E rel \in InstalledOfFqbn :
                IF FqbnParts[3] \in DOMAIN rel.Boards
                THEN ret = Return(Some(rel.Boards[FqbnParts[3]]), Nil)
                ELSE ret = Return(Nil, BoardNotFound)

\* the platform has a release that holds the board, and none is installed
C7_Witness ==
    /\ DoneFqbn /\ WellFormed
    /\ FqbnParts[1] \in DOMAIN packages
    /\ FqbnParts[2] \in DOMAIN packages[FqbnParts[1]].Platforms
    /\ InstalledOfFqbn = {}
    /\ \E v \in DOMAIN packages[FqbnParts[1]].Platforms[FqbnParts[2]].Releases :
          FqbnParts[3] \in
            DOMAIN packages[FqbnParts[1]].Platforms[FqbnParts[2]].Releases[v].Boards
    /\ ret.err = PlatformNotInstalled

\* C8: a string that is not 3 or 4 non-empty segments fails with "incorrect
\* format for fqbn"; the others go on to the lookup, where a fourth segment
\* does not change the board found.
C8_SegmentsNonEmpty ==
    DoneFqbn =>
      /\ (~WellFormed \/ \E i \in 1..Len(FqbnParts) : FqbnParts[i] = Empty)
           => ret = Return(Nil, IncorrectFormat)
      /\ (WellFormed /\ \A i \in 1..Len(FqbnParts) : FqbnParts[i] # Empty)
           => /\ ret.err # IncorrectFormat
              /\ ret \in FindBoardWithFQBN(packages, Join(SubSeq(FqbnParts, 1, 3), Colon))

\* every board of an installed release of the registry
InstalledBoards ==
    UNION {UNION {UNION {RangeOf(packages[p].Platforms[a].Releases[v].Boards)
                           : v \in {w \in DOMAIN packages[p].Platforms[a].Releases :
                                      packages[p].Platforms[a].Releases[w].Installed}}
                    : a \in DOMAIN packages[p].Platforms}
             : p \in DOMAIN packages}

SameHex(s, t) ==
    LET low(u) == [i \in 1..Len(u) |-> IF u[i] = "A" THEN "a" ELSE u[i]]
    IN  low(s) = low(t)

\* C9: FindBoardsWithID and FindBoardsWithVidPid return, each once, exactly
\* the boards of installed platform releases that match, from every package;
\* with no match the list is empty, and it is never nil nor an error.
C9_InstalledMatches ==
    /\ (pc = "done" /\ call.op = "FindBoardsWithID")
         => /\ ret.err = Nil
            /\ ret.val # Nil
            /\ Range(ret.val[1]) = {b \in InstalledBoards : b.BoardId = call.args[1]}
            /\ Len(ret.val[1]) = Cardinality(Range(ret.val[1]))
    /\ (pc = "done" /\ call.op = "FindBoardsWithVidPid")
         => /\ ret.err = Nil
            /\ ret.val # Nil
            /\ Range(ret.val[1]) =
                 {b \in InstalledBoards :
                    \E u \in b.UsbIds : SameHex(u[1], call.args[1]) /\ SameHex(u[2], call.args[2])}
            /\ Len(ret.val[1]) = Cardinality(Range(ret.val[1]))

\* two packages hold an installed board of the identifier asked for, and a
\* release that is not installed holds one too: the first two are returned
C9_Witness ==
    /\ pc = "done" /\ call.op = "FindBoardsWithID"
    /\ Len(ret.val[1]) = 2
    /\ ret.val[1][1].PlatformRelease.Package # ret.val[1][2].PlatformRelease.Package
    /\ \E p \in DOMAIN packages : \E a \in DOMAIN packages[p].Platforms :
         \E v \in DOMAIN packages[p].Platforms[a].Releases :
            /\ ~packages[p].Platforms[a].Releases[v].Installed
            /\ call.args[1] \in DOMAIN packages[p].Platforms[a].Releases[v].Boards

----------------------------------------------------------------------------
(* Properties of the lifecycle *)

\* C3: registering a sink while one is registered fails with an error that
\* is returned to the caller: the process is not aborted, and the sink that
\* was registered stays.
C3_SecondSinkIsAnError ==
    call.op = "RegisterEventHandler"
      => /\ ~panicked
         /\ ret.returned
         /\ ret.err # Nil => eventHandler # Some(call.args[1])

\* C3, the query: GetEventHandlers returns no sink before a registration and
\* one sink after it.
C3_ZeroOrOneSink ==
    call.op = "GetEventHandlers"
      => /\ ret.val # Nil
         /\ Len(ret.val[1]) = (IF eventHandler = Nil THEN 0 ELSE 1)

\* C4: after Clear the whole state of the manager, packages and sink, is the
\* state NewPackageManager returns; Clear itself never fails.
C4_ClearIsNew ==
    call.op = "Clear"
      => /\ ~panicked
         /\ ret.err = Nil
         /\ [packages |-> packages, eventHandler |-> eventHandler] = NewPackageManager

====
